---- MODULE Spec2Model ----
(***************************************************************************)
(* Model of the notes service of src/notes_backend/src/api/main.py: one    *)
(* SQLite table `notes` behind five FastAPI handlers (list, get, create,   *)
(* update, delete).                                                        *)
(*                                                                         *)
(* Spec     : requests served one at a time, each handler one action.      *)
(* ConcSpec : two requests served by two threads, their SQL statements,    *)
(*            commits and returns interleaved.                             *)
(*                                                                         *)
(* Time is the wall clock in seconds and is taken to be non-decreasing.    *)
(* CURRENT_TIMESTAMP stores it as fixed-width text, modelled by the pair   *)
(* <<minutes, seconds>>; SQL compares that text lexicographically and      *)
(* datetime.fromisoformat turns it back into an instant.                   *)
(***************************************************************************)
EXTENDS Integers, Sequences, FiniteSets, TLC

\* ---------------------------------------------------------------- bounds
\* Largest id the table hands out in a run (create is disabled beyond it).
MaxId == 2
\* Number of seconds the clock advances in a run.
MaxTicks == 1

\* ------------------------------------------------------ program constants
TitleMinLength == 1
TitleMaxLength == 200
ContentMinLength == 1
LimitMin == 1
LimitMax == 500
OffsetMin == 0

HTTP_200_OK == 200
HTTP_201_CREATED == 201
HTTP_204_NO_CONTENT == 204
HTTP_400_BAD_REQUEST == 400
HTTP_404_NOT_FOUND == 404
HTTP_422_UNPROCESSABLE_ENTITY == 422
HTTP_500_INTERNAL_SERVER_ERROR == 500

\* -------------------------------------------------------------- inputs
\* Python None / SQL NULL; a supplied value v is <<v>>.
None == <<>>
Some(v) == <<v>>

\* A title one character longer than TitleMaxLength (201 characters).
LongTitle == "xxxxxxxxxxxxxxxxxxxxxxxxxxxxxxxxxxxxxxxxxxxxxxxxxxxxxxxxxxxxxxxxxxxxxxxxxxxxxxxxxxxxxxxxxxxxxxxxxxxxxxxxxxxxxxxxxxxxxxxxxxxxxxxxxxxxxxxxxxxxxxxxxxxxxxxxxxxxxxxxxxxxxxxxxxxxxxxxxxxxxxxxxxxxxxxxxxxxxxxxxxxxx"

\* Request inputs: the ids, and payloads and queries that pass validation
\* together with some that do not.
IdInputs == 1 .. MaxId
FieldInputs == {None, Some("a"), Some("b")}
UpdatePayloads ==
    (FieldInputs \X FieldInputs)
        \cup {<<Some(""), None>>, <<Some(LongTitle), Some("a")>>, <<None, Some("")>>}
CreatePayloads ==
    ({Some("a"), Some("b")} \X {Some("a"), Some("b")})
        \cup {<<None, Some("a")>>, <<Some("a"), None>>, <<Some(""), Some("a")>>,
              <<Some(LongTitle), Some("a")>>, <<Some("a"), Some("")>>}
ListQueries ==
    ({LimitMin, 2, LimitMax} \X {OffsetMin, 1})
        \cup {<<LimitMax, MaxId>>}
        \cup {<<LimitMin - 1, OffsetMin>>, <<LimitMax + 1, OffsetMin>>,
              <<LimitMin, OffsetMin - 1>>}

\* The wall clock (seconds) when the service starts: one second before a
\* minute boundary, so that the text form of a later time has a smaller
\* seconds field than an earlier one.
StartClocks == {59}

VARIABLES
    notes,      \* table notes: id -> [title, content, created_at, updated_at]
    seq,        \* sqlite_sequence: the largest id AUTOINCREMENT has handed out
    clock,      \* wall clock, seconds
    resp,       \* Spec: the last request and its response
    assigned,   \* history: ids handed out by create, in order
    written,    \* history: id -> the fields last written to it
    pc,         \* ConcSpec: where each request's handler stands
    req,        \* ConcSpec: each request
    loc,        \* ConcSpec: each handler's locals (note_id, cur.rowcount)
    conn,       \* ConcSpec: each handler's connection: "none", "open", "closed"
    cresp,      \* ConcSpec: each request's response
    lock,       \* ConcSpec: the holder of the database's write lock, or "free"
    pending,    \* ConcSpec: the lock holder's uncommitted table and sequence
    commitLog   \* history: the update requests that committed, in order

seqVars == <<resp, assigned, written>>
concVars == <<pc, req, loc, conn, cresp, lock, pending, commitLog>>
vars == <<notes, seq, clock, resp, assigned, written,
          pc, req, loc, conn, cresp, lock, pending, commitLog>>

\* The requests served concurrently.
Procs == {"r1", "r2"}

\* ------------------------------------------------------- SQL and helpers
\* CURRENT_TIMESTAMP: 'YYYY-MM-DD HH:MM:SS', here <<minutes, seconds>>.
CURRENT_TIMESTAMP == <<clock \div 60, clock % 60>>

\* SQL datetime(x) on a stored 'YYYY-MM-DD HH:MM:SS' text returns that text.
SqlDatetime(ts) == ts

\* Binary text comparison of two fixed-width timestamps.
TextLess(a, b) == a[1] < b[1] \/ (a[1] = b[1] /\ a[2] < b[2])

\* datetime.fromisoformat on the stored text.
fromisoformat(ts) == ts[1] * 60 + ts[2]

\* Fault: title and content are swapped in the response model.
_row_to_note_Swapped(id, row) ==
    [id |-> id,
     title |-> row.content,
     content |-> row.title,
     created_at |-> fromisoformat(row.created_at),
     updated_at |-> fromisoformat(row.updated_at)]

_row_to_note(id, row) ==
    [id |-> id,
     title |-> row.title,
     content |-> row.content,
     created_at |-> fromisoformat(row.created_at),
     updated_at |-> fromisoformat(row.updated_at)]

\* Fault: an omitted field (NULL parameter) overwrites the column.
COALESCE_Overwrite(param, column) == IF param # None THEN param[1] ELSE ""

\* COALESCE(?, column)
COALESCE(param, column) == IF param # None THEN param[1] ELSE column

Max(a, b) == IF a >= b THEN a ELSE b
Min(a, b) == IF a <= b THEN a ELSE b

\* The largest id stored in table t (0 when it is empty).
MaxRowid(t) == IF DOMAIN t = {} THEN 0 ELSE CHOOSE i \in DOMAIN t : \A j \in DOMAIN t : j <= i

\* Fault: a plain INTEGER PRIMARY KEY (no AUTOINCREMENT) reuses the id of a
\* deleted last row.
NextRowid_Reuse(t, s) == MaxRowid(t) + 1

\* id INTEGER PRIMARY KEY AUTOINCREMENT: one more than the largest id ever
\* handed out (sqlite_sequence) or stored.
NextRowid(t, s) == Max(MaxRowid(t), s) + 1

\* INSERT INTO notes (title, content) VALUES (?, ?); the timestamps take the
\* column default CURRENT_TIMESTAMP.
InsertStmt(t, s, title, content) ==
    LET id == NextRowid(t, s)
        row == [title |-> title, content |-> content,
                created_at |-> CURRENT_TIMESTAMP, updated_at |-> CURRENT_TIMESTAMP]
    IN  [i \in DOMAIN t \cup {id} |-> IF i = id THEN row ELSE t[i]]

\* Fault: the UPDATE without its WHERE clause rewrites every row.
UpdateStmt_AllRows(t, id, title, content) ==
    [i \in DOMAIN t |->
        [title |-> COALESCE(title, t[i].title),
         content |-> COALESCE(content, t[i].content),
         created_at |-> t[i].created_at,
         updated_at |-> CURRENT_TIMESTAMP]]

\* Fault: the UPDATE refreshes created_at instead of updated_at.
UpdateStmt_RefreshCreated(t, id, title, content) ==
    [i \in DOMAIN t |->
        IF i = id
        THEN [title |-> COALESCE(title, t[i].title),
              content |-> COALESCE(content, t[i].content),
              created_at |-> CURRENT_TIMESTAMP,
              updated_at |-> t[i].updated_at]
        ELSE t[i]]

\* UPDATE notes SET title = COALESCE(?, title), content = COALESCE(?, content),
\* updated_at = CURRENT_TIMESTAMP WHERE id = ?;
UpdateStmt(t, id, title, content) ==
    [i \in DOMAIN t |->
        IF i = id
        THEN [title |-> COALESCE(title, t[i].title),
              content |-> COALESCE(content, t[i].content),
              created_at |-> t[i].created_at,
              updated_at |-> CURRENT_TIMESTAMP]
        ELSE t[i]]

\* Fault: the rowcount of the DELETE is not looked at (taken as one row).
DeleteRowcount_Ignored(t, id) == 1

\* DELETE FROM notes WHERE id = ?; and the cursor's rowcount.
DeleteStmt(t, id) == [i \in DOMAIN t \ {id} |-> t[i]]
DeleteRowcount(t, id) == IF id \in DOMAIN t THEN 1 ELSE 0

\* SELECT ... FROM notes WHERE id = ?; .fetchone(): the row, or None.
SelectById(t, id) == IF id \in DOMAIN t THEN Some(t[id]) ELSE None

\* Fault: ties on updated_at are broken by id ascending.
Precedes_IdAsc(t, a, b) ==
    \/ TextLess(SqlDatetime(t[b].updated_at), SqlDatetime(t[a].updated_at))
    \/ /\ SqlDatetime(t[a].updated_at) = SqlDatetime(t[b].updated_at)
       /\ a < b

\* ORDER BY datetime(updated_at) DESC, id DESC: row a comes before row b.
Precedes(t, a, b) ==
    \/ TextLess(SqlDatetime(t[b].updated_at), SqlDatetime(t[a].updated_at))
    \/ /\ SqlDatetime(t[a].updated_at) = SqlDatetime(t[b].updated_at)
       /\ a > b

RECURSIVE OrderBy(_, _)
OrderBy(t, S) ==
    IF S = {} THEN <<>>
    ELSE LET first == CHOOSE a \in S : \A b \in S \ {a} : Precedes(t, a, b)
         IN  <<first>> \o OrderBy(t, S \ {first})

\* SELECT ... ORDER BY ... LIMIT ? OFFSET ?; .fetchall(): the ids of the rows.
SelectPage(t, limit, offset) ==
    LET all == OrderBy(t, DOMAIN t)
    IN  SubSeq(all, offset + 1, Min(Len(all), offset + limit))

\* ------------------------------------------------------------ validation
\* Field(min_length=.., max_length=..) of NoteBase and NoteUpdate.
TitleOk(s) == Len(s) >= TitleMinLength /\ Len(s) <= TitleMaxLength
ContentOk(s) == Len(s) >= ContentMinLength

\* NoteCreate: both fields required.
NoteCreateValid(title, content) ==
    /\ title # None /\ TitleOk(title[1])
    /\ content # None /\ ContentOk(content[1])

\* NoteUpdate: both fields optional, checked when given.
NoteUpdateValid(title, content) ==
    /\ title # None => TitleOk(title[1])
    /\ content # None => ContentOk(content[1])

\* Fault: update does not reject a payload without fields.
NoFieldsGiven_Unchecked(title, content) == FALSE

\* payload.title is None and payload.content is None
NoFieldsGiven(title, content) == title = None /\ content = None

\* Query(100, ge=1, le=500) and Query(0, ge=0).
ListQueryValid(limit, offset) ==
    limit >= LimitMin /\ limit <= LimitMax /\ offset >= OffsetMin

\* ------------------------------------------------------------- responses
\* A response: the status and the notes of its body (none, one, or a list).
Response(status, body) == [status |-> status, body |-> body]

\* return _row_to_note(row): a missing row (row is None) is a TypeError, which
\* the framework answers with 500.
ReturnNote(id, row, status) ==
    IF row = None
    THEN Response(HTTP_500_INTERNAL_SERVER_ERROR, <<>>)
    ELSE Response(status, <<_row_to_note(id, row[1])>>)

\* ------------------------------------------- handlers, one request at a time
Request(op, id, title, content, limit, offset) ==
    [op |-> op, id |-> id, title |-> title, content |-> content,
     limit |-> limit, offset |-> offset]

NoRequest == Request("none", 0, None, None, 0, 0)
NoResponse == Response(0, <<>>)

\* resp holds the request being answered and its response until the response
\* has gone out; the next request is taken up after that.
Exchange(r, a) ==
    [op |-> r.op, id |-> r.id, title |-> r.title, content |-> r.content,
     limit |-> r.limit, offset |-> r.offset, status |-> a.status, body |-> a.body]

Reply(r, a) == resp' = Exchange(r, a)

Ready == resp = Exchange(NoRequest, NoResponse)

\* A second passes.
Tick ==
    /\ Ready
    /\ \E c \in StartClocks : clock < c + MaxTicks
    /\ clock' = clock + 1
    /\ UNCHANGED <<notes, seq, resp, assigned, written>>
    /\ UNCHANGED concVars

\* The response goes out to the client.
SendResponse ==
    /\ ~Ready
    /\ resp' = Exchange(NoRequest, NoResponse)
    /\ UNCHANGED <<notes, seq, clock, assigned, written>>
    /\ UNCHANGED concVars

list_notes(limit, offset) ==
    LET r == Request("list", 0, None, None, limit, offset)
        ids == SelectPage(notes, limit, offset)
    IN  /\ Ready
        /\ IF ~ListQueryValid(limit, offset)
           THEN Reply(r, Response(HTTP_422_UNPROCESSABLE_ENTITY, <<>>))
           ELSE Reply(r, Response(HTTP_200_OK,
                        [k \in 1 .. Len(ids) |-> _row_to_note(ids[k], notes[ids[k]])]))
        /\ UNCHANGED <<notes, seq, clock, assigned, written>>
        /\ UNCHANGED concVars

get_note(note_id) ==
    LET r == Request("get", note_id, None, None, 0, 0)
        row == SelectById(notes, note_id)
    IN  /\ Ready
        /\ IF row = None
           THEN Reply(r, Response(HTTP_404_NOT_FOUND, <<>>))
           ELSE Reply(r, ReturnNote(note_id, row, HTTP_200_OK))
        /\ UNCHANGED <<notes, seq, clock, assigned, written>>
        /\ UNCHANGED concVars

create_note(title, content) ==
    LET r == Request("create", 0, title, content, 0, 0)
    IN  /\ Ready
        /\ seq < MaxId
        /\ IF ~NoteCreateValid(title, content)
           THEN /\ Reply(r, Response(HTTP_422_UNPROCESSABLE_ENTITY, <<>>))
                /\ UNCHANGED <<notes, seq, assigned, written>>
           ELSE LET note_id == NextRowid(notes, seq)
                    after == InsertStmt(notes, seq, title[1], content[1])
                    row == SelectById(after, note_id)
                IN  /\ notes' = after
                    /\ seq' = note_id
                    /\ Reply(r, ReturnNote(note_id, row, HTTP_201_CREATED))
                    /\ assigned' = Append(assigned, note_id)
                    /\ written' = [i \in DOMAIN written \cup {note_id} |->
                                     IF i = note_id
                                     THEN [title |-> title[1], content |-> content[1],
                                           created_at |-> clock, updated_at |-> clock]
                                     ELSE written[i]]
        /\ UNCHANGED clock
        /\ UNCHANGED concVars

update_note(note_id, title, content) ==
    LET r == Request("update", note_id, title, content, 0, 0)
    IN  /\ Ready
        /\ IF ~NoteUpdateValid(title, content)
           THEN /\ Reply(r, Response(HTTP_422_UNPROCESSABLE_ENTITY, <<>>))
                /\ UNCHANGED <<notes, written>>
           ELSE IF NoFieldsGiven(title, content)
           THEN /\ Reply(r, Response(HTTP_400_BAD_REQUEST, <<>>))
                /\ UNCHANGED <<notes, written>>
           ELSE IF SelectById(notes, note_id) = None
           THEN /\ Reply(r, Response(HTTP_404_NOT_FOUND, <<>>))
                /\ UNCHANGED <<notes, written>>
           ELSE LET after == UpdateStmt(notes, note_id, title, content)
                    row == SelectById(after, note_id)
                IN  /\ notes' = after
                    /\ Reply(r, ReturnNote(note_id, row, HTTP_200_OK))
                    /\ written' = [written EXCEPT ![note_id] =
                                     [title |-> IF title # None THEN title[1] ELSE @.title,
                                      content |-> IF content # None THEN content[1] ELSE @.content,
                                      created_at |-> @.created_at,
                                      updated_at |-> clock]]
        /\ UNCHANGED <<seq, clock, assigned>>
        /\ UNCHANGED concVars

delete_note(note_id) ==
    LET r == Request("delete", note_id, None, None, 0, 0)
        rowcount == DeleteRowcount(notes, note_id)
    IN  /\ Ready
        /\ notes' = DeleteStmt(notes, note_id)
        /\ IF rowcount = 0
           THEN Reply(r, Response(HTTP_404_NOT_FOUND, <<>>))
           ELSE Reply(r, Response(HTTP_204_NO_CONTENT, <<>>))
        /\ written' = [i \in DOMAIN written \ {note_id} |-> written[i]]
        /\ UNCHANGED <<seq, clock, assigned>>
        /\ UNCHANGED concVars

ConcIdle ==
    /\ pc = [p \in Procs |-> "idle"]
    /\ req = [p \in Procs |-> NoRequest]
    /\ loc = [p \in Procs |-> [note_id |-> 0, rowcount |-> 0]]
    /\ conn = [p \in Procs |-> "none"]
    /\ cresp = [p \in Procs |-> NoResponse]
    /\ lock = "free"
    /\ pending = [notes |-> <<>>, seq |-> 0]
    /\ commitLog = <<>>

Init ==
    /\ notes = <<>>
    /\ seq = 0
    /\ clock \in StartClocks
    /\ resp = Exchange(NoRequest, NoResponse)
    /\ assigned = <<>>
    /\ written = <<>>
    /\ ConcIdle

Next ==
    \/ Tick
    \/ SendResponse
    \/ \E q \in ListQueries : list_notes(q[1], q[2])
    \/ \E id \in IdInputs : get_note(id)
    \/ \E p \in CreatePayloads : create_note(p[1], p[2])
    \/ \E id \in IdInputs, p \in UpdatePayloads : update_note(id, p[1], p[2])
    \/ \E id \in IdInputs : delete_note(id)

Spec == Init /\ [][Next]_vars

\* ------------------------------- handlers, two requests served concurrently
\* Each request runs in its own thread on its own connection; a step is one
\* SQL statement or commit together with the handler's local code up to the
\* next one.  A statement that writes takes the database's write lock, which
\* its commit releases; a writer that finds the lock taken waits for it.  A
\* reader sees the committed table.
ConcRequests ==
    {Request("list", 0, None, None, LimitMax, OffsetMin)}
    \cup {Request(o, i, None, None, 0, 0) : o \in {"get", "delete"}, i \in IdInputs}
    \cup {Request("create", 0, t, Some("a"), 0, 0) : t \in {Some("a"), Some("")}}
    \cup {Request("update", i, f[1], f[2], 0, 0) :
            i \in IdInputs,
            f \in FieldInputs \X FieldInputs}

\* The tables the service may find at startup: empty, or holding one note
\* that an earlier run created.
StartTables(t0) ==
    {<<>>, [i \in {1} |-> [title |-> "a", content |-> "a", created_at |-> t0, updated_at |-> t0]]}

\* The request passed validation: is its payload or query acceptable?
RequestValid(r) ==
    CASE r.op = "list" -> ListQueryValid(r.limit, r.offset)
      [] r.op = "create" -> NoteCreateValid(r.title, r.content)
      [] r.op = "update" -> NoteUpdateValid(r.title, r.content)
      [] OTHER -> TRUE

\* The handler's first statement.
FirstStep(r) ==
    CASE r.op = "list" -> "list_select"
      [] r.op = "get" -> "get_select"
      [] r.op = "create" -> "create_insert"
      [] r.op = "update" -> "update_exists"
      [] r.op = "delete" -> "delete_delete"

\* The handler returns or raises: the request ends with response r.  Leaving
\* the `with` block commits or rolls back; it does not close the connection.
Finish(p, r) ==
    /\ pc' = [pc EXCEPT ![p] = "done"]
    /\ cresp' = [cresp EXCEPT ![p] = r]

Goto(p, label) == pc' = [pc EXCEPT ![p] = label]

\* The write lock is available to a statement that writes.
LockFree == lock = "free"

\* A request arrives: validation, update's check for an empty payload, and
\* _get_connection().
Start(p, r) ==
    /\ pc[p] = "idle"
    /\ req' = [req EXCEPT ![p] = r]
    /\ IF ~RequestValid(r)
       THEN Finish(p, Response(HTTP_422_UNPROCESSABLE_ENTITY, <<>>)) /\ UNCHANGED conn
       ELSE IF r.op = "update" /\ NoFieldsGiven(r.title, r.content)
       THEN Finish(p, Response(HTTP_400_BAD_REQUEST, <<>>)) /\ UNCHANGED conn
       ELSE /\ conn' = [conn EXCEPT ![p] = "open"]
            /\ Goto(p, FirstStep(r))
            /\ UNCHANGED cresp
    /\ UNCHANGED <<notes, seq, clock, loc, lock, pending, commitLog>>
    /\ UNCHANGED seqVars

list_notes_select(p) ==
    /\ pc[p] = "list_select"
    /\ LET ids == SelectPage(notes, req[p].limit, req[p].offset)
       IN  Finish(p, Response(HTTP_200_OK,
                    [k \in 1 .. Len(ids) |-> _row_to_note(ids[k], notes[ids[k]])]))
    /\ UNCHANGED <<notes, seq, clock, req, loc, conn, lock, pending, commitLog>>
    /\ UNCHANGED seqVars

get_note_select(p) ==
    /\ pc[p] = "get_select"
    /\ LET row == SelectById(notes, req[p].id)
       IN  IF row = None
           THEN Finish(p, Response(HTTP_404_NOT_FOUND, <<>>))
           ELSE Finish(p, ReturnNote(req[p].id, row, HTTP_200_OK))
    /\ UNCHANGED <<notes, seq, clock, req, loc, conn, lock, pending, commitLog>>
    /\ UNCHANGED seqVars

create_note_insert(p) ==
    /\ pc[p] = "create_insert"
    /\ LockFree
    /\ lock' = p
    /\ LET note_id == NextRowid(notes, seq)
       IN  /\ pending' = [notes |-> InsertStmt(notes, seq, req[p].title[1], req[p].content[1]),
                          seq |-> note_id]
           /\ loc' = [loc EXCEPT ![p].note_id = note_id]
    /\ Goto(p, "create_commit")
    /\ UNCHANGED <<notes, seq, clock, req, conn, cresp, commitLog>>
    /\ UNCHANGED seqVars

create_note_commit(p) ==
    /\ pc[p] = "create_commit"
    /\ notes' = pending.notes
    /\ seq' = pending.seq
    /\ lock' = "free"
    /\ Goto(p, "create_select")
    /\ UNCHANGED <<clock, req, loc, conn, cresp, pending, commitLog>>
    /\ UNCHANGED seqVars

create_note_select(p) ==
    /\ pc[p] = "create_select"
    /\ Finish(p, ReturnNote(loc[p].note_id, SelectById(notes, loc[p].note_id),
                            HTTP_201_CREATED))
    /\ UNCHANGED <<notes, seq, clock, req, loc, conn, lock, pending, commitLog>>
    /\ UNCHANGED seqVars

update_note_exists(p) ==
    /\ pc[p] = "update_exists"
    /\ IF SelectById(notes, req[p].id) = None
       THEN Finish(p, Response(HTTP_404_NOT_FOUND, <<>>))
       ELSE Goto(p, "update_update") /\ UNCHANGED cresp
    /\ UNCHANGED <<notes, seq, clock, req, loc, conn, lock, pending, commitLog>>
    /\ UNCHANGED seqVars

update_note_update(p) ==
    /\ pc[p] = "update_update"
    /\ LockFree
    /\ lock' = p
    /\ pending' = [notes |-> UpdateStmt(notes, req[p].id, req[p].title, req[p].content),
                   seq |-> seq]
    /\ Goto(p, "update_commit")
    /\ UNCHANGED <<notes, seq, clock, req, loc, conn, cresp, commitLog>>
    /\ UNCHANGED seqVars

update_note_commit(p) ==
    /\ pc[p] = "update_commit"
    /\ notes' = pending.notes
    /\ lock' = "free"
    /\ commitLog' = Append(commitLog, p)
    /\ Goto(p, "update_select")
    /\ UNCHANGED <<seq, clock, req, loc, conn, cresp, pending>>
    /\ UNCHANGED seqVars

update_note_select(p) ==
    /\ pc[p] = "update_select"
    /\ Finish(p, ReturnNote(req[p].id, SelectById(notes, req[p].id), HTTP_200_OK))
    /\ UNCHANGED <<notes, seq, clock, req, loc, conn, lock, pending, commitLog>>
    /\ UNCHANGED seqVars

delete_note_delete(p) ==
    /\ pc[p] = "delete_delete"
    /\ LockFree
    /\ lock' = p
    /\ pending' = [notes |-> DeleteStmt(notes, req[p].id), seq |-> seq]
    /\ loc' = [loc EXCEPT ![p].rowcount = DeleteRowcount(notes, req[p].id)]
    /\ Goto(p, "delete_commit")
    /\ UNCHANGED <<notes, seq, clock, req, conn, cresp, commitLog>>
    /\ UNCHANGED seqVars

delete_note_commit(p) ==
    /\ pc[p] = "delete_commit"
    /\ notes' = pending.notes
    /\ lock' = "free"
    /\ IF loc[p].rowcount = 0
       THEN Finish(p, Response(HTTP_404_NOT_FOUND, <<>>))
       ELSE Finish(p, Response(HTTP_204_NO_CONTENT, <<>>))
    /\ UNCHANGED <<seq, clock, req, loc, conn, pending, commitLog>>
    /\ UNCHANGED seqVars

\* The interpreter reclaims a finished handler's connection object, which
\* closes it; when that happens is up to the interpreter.
Finalize(p) ==
    /\ pc[p] = "done"
    /\ conn[p] = "open"
    /\ conn' = [conn EXCEPT ![p] = "closed"]
    /\ UNCHANGED <<notes, seq, clock, pc, req, loc, cresp, lock, pending, commitLog>>
    /\ UNCHANGED seqVars

ConcInit ==
    /\ clock \in StartClocks
    /\ notes \in StartTables(CURRENT_TIMESTAMP)
    /\ seq = MaxRowid(notes)
    /\ resp = Exchange(NoRequest, NoResponse)
    /\ assigned = <<>>
    /\ written = <<>>
    /\ ConcIdle

ConcNext ==
    \/ Tick
    \/ \E p \in Procs, r \in ConcRequests : Start(p, r)
    \/ \E p \in Procs : list_notes_select(p)
    \/ \E p \in Procs : get_note_select(p)
    \/ \E p \in Procs : create_note_insert(p)
    \/ \E p \in Procs : create_note_commit(p)
    \/ \E p \in Procs : create_note_select(p)
    \/ \E p \in Procs : update_note_exists(p)
    \/ \E p \in Procs : update_note_update(p)
    \/ \E p \in Procs : update_note_commit(p)
    \/ \E p \in Procs : update_note_select(p)
    \/ \E p \in Procs : delete_note_delete(p)
    \/ \E p \in Procs : delete_note_commit(p)
    \/ \E p \in Procs : Finalize(p)

ConcSpec == ConcInit /\ [][ConcNext]_vars

\* ==================================================================== claims
\* The instants of a stored row, as a client reads them.
CreatedAt(t, id) == fromisoformat(t[id].created_at)
UpdatedAt(t, id) == fromisoformat(t[id].updated_at)

\* A request of kind op is handled in this step; resp' holds it and its response.
Handles(op) == Ready /\ resp'.op = op

\* The payload passes NoteUpdate's validation and supplies at least one field.
Supplies(title, content) ==
    NoteUpdateValid(title, content) /\ (title # None \/ content # None)

\* C1: a PUT on a stored id with at least one field supplied succeeds and changes
\* exactly the supplied fields: omitted fields, id and created_at keep their
\* values, updated_at becomes the current time and does not decrease, and no
\* other note changes.
C1_UpdateChangesOnlySuppliedFields ==
    [][(/\ Handles("update")
        /\ resp'.id \in DOMAIN notes
        /\ Supplies(resp'.title, resp'.content)) =>
          LET id == resp'.id
          IN  /\ resp'.status = HTTP_200_OK
              /\ DOMAIN notes' = DOMAIN notes
              /\ \A j \in DOMAIN notes \ {id} : notes'[j] = notes[j]
              /\ notes'[id].title =
                    (IF resp'.title = None THEN notes[id].title ELSE resp'.title[1])
              /\ notes'[id].content =
                    (IF resp'.content = None THEN notes[id].content ELSE resp'.content[1])
              /\ notes'[id].created_at = notes[id].created_at
              /\ UpdatedAt(notes', id) = clock
              /\ UpdatedAt(notes', id) >= UpdatedAt(notes, id)
              /\ resp'.body[1].id = id]_vars

\* C1 witness: an update that gave only the title succeeded on one of two
\* stored notes after the clock had advanced; the other note is as created.
C1_Witness ==
    /\ resp.op = "update" /\ resp.status = HTTP_200_OK
    /\ resp.title # None /\ resp.content = None
    /\ Cardinality(DOMAIN notes) = 2
    /\ resp.body[1].updated_at > resp.body[1].created_at
    /\ \E j \in DOMAIN notes : j # resp.id /\ UpdatedAt(notes, j) = CreatedAt(notes, j)

\* The number of stored notes that sort before note id: later updated_at, or
\* the same updated_at and a greater id.
Rank(t, id) ==
    Cardinality({j \in DOMAIN t :
        \/ UpdatedAt(t, j) > UpdatedAt(t, id)
        \/ UpdatedAt(t, j) = UpdatedAt(t, id) /\ j > id})

\* body is the page (limit, offset) of table t in that order.
IsPage(t, limit, offset, body) ==
    LET n == Cardinality(DOMAIN t)
        len == Max(0, Min(limit, n - offset))
    IN  /\ Len(body) = len
        /\ Len(body) <= limit
        /\ (offset >= n => body = <<>>)
        /\ \A k \in 1 .. Len(body) :
              /\ body[k].id \in DOMAIN t
              /\ Rank(t, body[k].id) = offset + k - 1
              /\ body[k].title = t[body[k].id].title
              /\ body[k].content = t[body[k].id].content
              /\ body[k].created_at = CreatedAt(t, body[k].id)
              /\ body[k].updated_at = UpdatedAt(t, body[k].id)

\* A list with a valid query returns the page it asks for.
ListReturnsPage ==
    (resp.op = "list" /\ ListQueryValid(resp.limit, resp.offset)) =>
        resp.status = HTTP_200_OK /\ IsPage(notes, resp.limit, resp.offset, resp.body)

\* The note a successful request of one of the kinds in ops has just written
\* sorts before every other stored note.
WrittenSortsFirst(ops) ==
    (resp.op \in ops /\ resp.status \in {HTTP_200_OK, HTTP_201_CREATED}) =>
        Rank(notes, resp.body[1].id) = 0

C3_AbsentIdAlways404 ==
    [][(/\ Handles("get") \/ Handles("update") \/ Handles("delete")
        /\ resp'.id \notin DOMAIN notes
        /\ NoteUpdateValid(resp'.title, resp'.content)) =>
          resp'.status = HTTP_404_NOT_FOUND /\ notes' = notes]_vars

\* C3 as amended: on an id no stored note has, GET, PUT with a payload that
\* supplies title or content, and DELETE return 404 and leave the notes
\* unchanged.
C3_AbsentId404 ==
    [][(/\ Handles("get") \/ Handles("update") \/ Handles("delete")
        /\ resp'.id \notin DOMAIN notes
        /\ Handles("update") => Supplies(resp'.title, resp'.content)) =>
          resp'.status = HTTP_404_NOT_FOUND /\ notes' = notes]_vars

\* C3 witness: a PUT that gave a title for an id that is not stored was
\* answered 404 while another note is stored.
C3_Witness ==
    /\ resp.op = "update" /\ resp.status = HTTP_404_NOT_FOUND
    /\ resp.title # None
    /\ resp.id \notin DOMAIN notes
    /\ notes # <<>>

\* C4: a PUT that supplies neither title nor content returns 400 for every id,
\* stored or not, and leaves every stored note unchanged.
C4_EmptyUpdate400 ==
    [][(Handles("update") /\ resp'.title = None /\ resp'.content = None) =>
          resp'.status = HTTP_400_BAD_REQUEST /\ notes' = notes]_vars

\* C4 witness: a PUT without fields on a stored id was answered 400.
C4_Witness ==
    /\ resp.op = "update" /\ resp.status = HTTP_400_BAD_REQUEST
    /\ resp.id \in DOMAIN notes

\* C5: the ids create hands out are strictly increasing, so no id is handed
\* out twice, also not the id of a deleted note; every stored note has a
\* handed-out id; create returns the id it handed out and update returns the
\* id it was given.
C5_IdsUniqueIncreasing ==
    /\ \A i, j \in 1 .. Len(assigned) : i < j => assigned[i] < assigned[j]
    /\ DOMAIN notes \subseteq {assigned[i] : i \in 1 .. Len(assigned)}
    /\ (resp.op = "create" /\ resp.status = HTTP_201_CREATED) =>
          /\ resp.body[1].id = assigned[Len(assigned)]
          /\ resp.body[1].id > 0
    /\ (resp.op = "update" /\ resp.status = HTTP_200_OK) =>
          resp.body[1].id = resp.id /\ resp.id \in DOMAIN notes

\* C5 witness: the only note was deleted and the next create got a new id.
C5_Witness ==
    /\ resp.op = "create" /\ resp.status = HTTP_201_CREATED
    /\ assigned = <<1, 2>>
    /\ DOMAIN notes = {2}

\* C6: every stored note has updated_at >= created_at, and create returns a
\* note whose two timestamps are equal.
C6_UpdatedNotBeforeCreated ==
    /\ \A id \in DOMAIN notes : UpdatedAt(notes, id) >= CreatedAt(notes, id)
    /\ (resp.op = "create" /\ resp.status = HTTP_201_CREATED) =>
          resp.body[1].created_at = resp.body[1].updated_at

\* C6 witness: a stored note was updated in a later second than it was created.
C6_Witness ==
    \E id \in DOMAIN notes : UpdatedAt(notes, id) > CreatedAt(notes, id)

\* C7: GET on a note that was created and not deleted returns the title and
\* content last written to it, its original created_at and the updated_at of
\* its last successful write.
C7_GetReturnsLastWritten ==
    (resp.op = "get" /\ resp.id \in DOMAIN written) =>
        /\ resp.status = HTTP_200_OK
        /\ resp.body = <<[id |-> resp.id,
                         title |-> written[resp.id].title,
                         content |-> written[resp.id].content,
                         created_at |-> written[resp.id].created_at,
                         updated_at |-> written[resp.id].updated_at]>>

\* C7 witness: a GET returned a note whose title and content differ and that
\* was updated after its creation.
C7_Witness ==
    /\ resp.op = "get" /\ resp.status = HTTP_200_OK
    /\ resp.body[1].title # resp.body[1].content
    /\ resp.body[1].updated_at > resp.body[1].created_at

\* Both requests are finished updates of the same stored id.
BothUpdated(id) ==
    /\ \A p \in Procs :
          /\ pc[p] = "done"
          /\ req[p].op = "update" /\ req[p].id = id
          /\ ~NoFieldsGiven(req[p].title, req[p].content)
    /\ id \in DOMAIN notes

\* The request that committed last among those in S.
LastCommitted(S) ==
    CHOOSE p \in S : \E k \in 1 .. Len(commitLog) :
        commitLog[k] = p /\ \A m \in (k + 1) .. Len(commitLog) : commitLog[m] \notin S

\* C8: two concurrent updates of the same stored id both succeed, and each
\* field ends with the value of the update that committed last among those
\* that supplied it.
C8_LastWriterWins ==
    \A id \in IdInputs :
        BothUpdated(id) =>
            /\ \A p \in Procs : cresp[p].status = HTTP_200_OK
            /\ Len(commitLog) = Cardinality(Procs)
            /\ LET T == {p \in Procs : req[p].title # None}
                   C == {p \in Procs : req[p].content # None}
               IN  /\ T # {} => notes[id].title = req[LastCommitted(T)].title[1]
                   /\ C # {} => notes[id].content = req[LastCommitted(C)].content[1]

\* C8 witness: r1 set the title and r2 the content of note 1, r2 committing
\* last, and the note holds both.
C8_Witness ==
    /\ BothUpdated(1)
    /\ req["r1"].title = Some("b") /\ req["r1"].content = None
    /\ req["r2"].title = None /\ req["r2"].content = Some("b")
    /\ commitLog = <<"r1", "r2">>
    /\ notes[1].title = "b" /\ notes[1].content = "b"

\* C9: create always ends with the created note (or a validation error) and
\* update with 400, 404 or the updated note (or a validation error): the
\* re-read after the commit never misses the row.
C9_RereadFindsRow ==
    \A p \in Procs :
        pc[p] = "done" =>
            /\ req[p].op = "create" =>
                  cresp[p].status \in {HTTP_201_CREATED, HTTP_422_UNPROCESSABLE_ENTITY}
            /\ req[p].op = "update" =>
                  cresp[p].status \in {HTTP_200_OK, HTTP_400_BAD_REQUEST,
                                       HTTP_404_NOT_FOUND, HTTP_422_UNPROCESSABLE_ENTITY}

\* C10: no connection is open once its request has finished.
C10_ConnectionsReleased ==
    \A p \in Procs : pc[p] = "done" => conn[p] # "open"

====
